---- MODULE Spec2Model ----
(***************************************************************************)
(* Model of src/script.js: the smooth-scroll animation started by a click  *)
(* on a same-page anchor link, and the auto-hiding header driven by the    *)
(* scroll position, both scheduled through requestAnimFrame; the debounced  *)
(* viewport height of Safari on iOS; and the click handler of the card     *)
(* buttons.                                                                *)
(*                                                                         *)
(* The page runs on one thread: every action below is one task of the     *)
(* event loop (an event handler, a frame callback) or one step of the      *)
(* browser (a frame being delivered, a default action being performed).    *)
(***************************************************************************)
EXTENDS Integers, Sequences, FiniteSets

VARIABLES
    phase,            \* "loading" before init() has run, "ready" after
    hasHeader,        \* document.querySelector('header') finds an element
    nativeRAF,        \* window.requestAnimationFrame (or a prefixed one) exists
    listeners,        \* event listeners registered by init()
    pageYOffset,      \* window.pageYOffset, in whole pixels
    classList,        \* header.classList restricted to the two classes used
    lastScrollTop,    \* closure variable of initFixedHeaderEffect
    ticking,          \* closure variable of initFixedHeaderEffect
    rafQueue,         \* callbacks handed to requestAnimFrame, not yet delivered
    frameCallbacks,   \* callbacks of the frame being run, not yet called
    now,              \* timestamp of the latest frame
    animations,       \* per click: the closure {start, startPosition, distance}
    clickEvent,       \* the click event whose default action is still to come
    called,           \* the handler that made the latest step, and the state it ran in
    easeCall,         \* a call of ease under test: arguments and results
    clickOrder,       \* the animations in flight, in the order of their clicks
    overlapped,       \* the animations in flight that have shared a time with another
    isSafariIOS,      \* the user agent matches the test of applySafariIOSFixes
    innerHeight,      \* window.innerHeight, in whole pixels
    vh,               \* the property --vh, in hundredths of a pixel
    timeout,          \* per debounced listener: the closure variable of debounce
    burst,            \* the resize and orientationchange events less than wait apart
    cardButton,       \* the .card-button of the page and what surrounds it
    error             \* an uncaught exception was reported

\* The animations' order and overlap, kept for the claims.
orderVars == <<clickOrder, overlapped>>

viewportVars == <<isSafariIOS, innerHeight, vh, timeout, burst>>

cardVars == <<cardButton, error>>

vars == <<phase, hasHeader, nativeRAF, listeners, pageYOffset, classList,
          lastScrollTop, ticking, rafQueue, frameCallbacks, now,
          animations, clickEvent, called, easeCall, orderVars, viewportVars,
          cardVars>>

headerVars == <<classList, lastScrollTop, ticking>>

-----------------------------------------------------------------------------
(* Bounds of the model. *)

\* Frames are delivered up to this timestamp; work that could not finish
\* before it is not accepted.
MaxTime == 2600

\* The scrollable range of the document is 0..MaxScrollY.
MaxScrollY == 400

\* Clicks whose animations may be in flight at the same time.
MaxAnimations == 2

\* Time between two frames, and the longest such time.
FrameDeltas == {300, 500}

MaxDelta == CHOOSE d \in FrameDeltas : \A e \in FrameDeltas : e <= d

\* The window is resized or rotated up to this time.
MaxResizeTime == 400

\* Time that passes between two tasks while no frame is due.
ClockSteps == {25, 50}

\* Heights of the window.
Heights == {600, 800}

-----------------------------------------------------------------------------
(* JavaScript values: numbers, null, undefined and NaN. *)

Num(x) == [k |-> "number", n |-> x]

Null == [k |-> "null", n |-> 0]

Undefined == [k |-> "undefined", n |-> 0]

NaN == [k |-> "NaN", n |-> 0]

IsNum(v) == v.k = "number"

\* a - b on JavaScript values: NaN unless both are numbers
\* (undefined - undefined is NaN).
Minus(a, b) == IF IsNum(a) /\ IsNum(b) THEN Num(a.n - b.n) ELSE NaN

\* a < b for a JavaScript value a and a number b: false when a is NaN.
LessThan(a, b) == IsNum(a) /\ a.n < b

Abs(x) == IF x < 0 THEN -x ELSE x

-----------------------------------------------------------------------------
(* The header heuristic: initFixedHeaderEffect. *)

scrollThreshold == 100

deltaThreshold == 5

\* document.documentElement.scrollTop: the same scroll position as
\* window.pageYOffset.
scrollTop == pageYOffset

\* window.pageYOffset || document.documentElement.scrollTop
currentScroll == IF pageYOffset # 0 THEN pageYOffset ELSE scrollTop

\* A slip in the branch at the top of the page: header-scrolled is kept.
AtTopKeepsScrolled(classes) == classes \ {"header-hidden"}

\* The branch at the top of the page: both classes removed.
AtTop(classes) == (classes \ {"header-hidden"}) \ {"header-scrolled"}

\* A slip: the test of the scroll delta never holds.
InsignificantDeltaNever(scrollDelta) == FALSE

\* Math.abs(scrollDelta) < deltaThreshold
InsignificantDelta(scrollDelta) == Abs(scrollDelta) < deltaThreshold

\* A slip in the branch for scrolling down: header-scrolled is not added.
ScrollingDownOnlyHidden(classes) == classes \cup {"header-hidden"}

\* Scrolling down: the header is hidden.
ScrollingDown(classes) == (classes \cup {"header-hidden"}) \cup {"header-scrolled"}

\* A slip in the branch for scrolling up: header-hidden is kept.
ScrollingUpKeepsHidden(classes) == classes \cup {"header-scrolled"}

\* Scrolling up: the header is shown.
ScrollingUp(classes) == (classes \ {"header-hidden"}) \cup {"header-scrolled"}

\* A slip: headerScrollHandler without its return for a negative offset.
headerScrollHandlerNoBounce(s, classes, last) ==
    IF s <= scrollThreshold
    THEN [classList |-> AtTop(classes), lastScrollTop |-> s]
    ELSE LET scrollDelta == s - last
         IN  IF InsignificantDelta(scrollDelta)
             THEN [classList |-> classes, lastScrollTop |-> last]
             ELSE IF scrollDelta > 0
             THEN [classList |-> ScrollingDown(classes), lastScrollTop |-> s]
             ELSE [classList |-> ScrollingUp(classes), lastScrollTop |-> s]

\* A slip: the branch at the top of the page without lastScrollTop =
\* currentScroll.
headerScrollHandlerStaleTop(s, classes, last) ==
    IF s < 0
    THEN [classList |-> classes, lastScrollTop |-> last]
    ELSE IF s <= scrollThreshold
    THEN [classList |-> AtTop(classes), lastScrollTop |-> last]
    ELSE LET scrollDelta == s - last
         IN  IF InsignificantDelta(scrollDelta)
             THEN [classList |-> classes, lastScrollTop |-> last]
             ELSE IF scrollDelta > 0
             THEN [classList |-> ScrollingDown(classes), lastScrollTop |-> s]
             ELSE [classList |-> ScrollingUp(classes), lastScrollTop |-> s]

\* headerScrollHandler read with scroll offset s: the header's classes and
\* lastScrollTop after the call.
headerScrollHandler(s, classes, last) ==
    IF s < 0
    THEN [classList |-> classes, lastScrollTop |-> last]
    ELSE IF s <= scrollThreshold
    THEN [classList |-> AtTop(classes), lastScrollTop |-> s]
    ELSE LET scrollDelta == s - last
         IN  IF InsignificantDelta(scrollDelta)
             THEN [classList |-> classes, lastScrollTop |-> last]
             ELSE IF scrollDelta > 0
             THEN [classList |-> ScrollingDown(classes), lastScrollTop |-> s]
             ELSE [classList |-> ScrollingUp(classes), lastScrollTop |-> s]

\* A slip: initFixedHeaderEffect without its initial check.
InitialCheckSkipped(s, classes) == [classList |-> classes, lastScrollTop |-> 0]

\* The initial check of initFixedHeaderEffect: headerScrollHandler() with
\* lastScrollTop = 0.
InitialCheck(s, classes) == headerScrollHandler(s, classes, 0)

\* A callback handed to requestAnimFrame: the header's tick, or the
\* animation function of the click in slot id.
TickCallback == [kind |-> "tick", id |-> 0]

AnimationCallback(i) == [kind |-> "animation", id |-> i]

\* A slip: a callback handed over takes the place of those waiting.
requestAnimFrameReplacing(queue, callback) == <<callback>>

\* A slip: a callback handed over is called before those waiting.
requestAnimFramePrepending(queue, callback) == <<callback>> \o queue

\* requestAnimFrame(callback): the callback joins those of the next frame
\* (natively) or becomes a timer of 1000 / 60 ms (the fallback); either way
\* callbacks are called in the order they were handed over.
requestAnimFrame(queue, callback) == Append(queue, callback)

\* A slip: if (ticking) for if (!ticking).
MayRequestTickInverted(t) == t

\* A slip: requestTick does not look at the ticking flag.
MayRequestTickAlways(t) == TRUE

\* requestTick's test of the ticking flag.
MayRequestTick(t) == ~t

\* requestTick, the scroll listener.
requestTick ==
    IF MayRequestTick(ticking)
    THEN /\ rafQueue' = requestAnimFrame(rafQueue, TickCallback)
         /\ ticking' = TRUE
    ELSE UNCHANGED <<rafQueue, ticking>>

-----------------------------------------------------------------------------
(* Smooth scrolling: initSmoothScroll. *)

duration == 1000

\* The links a[href^="#"] of the page, by their href.
Links == {"#", "#missing", "#top", "#guides"}

\* The fragments that name an element of the page.
Anchors == {"#top", "#guides"}

NoElement == "null"

\* document.querySelector(href): the element, or null.
querySelector(href) == IF href \in Anchors THEN href ELSE NoElement

\* target.getBoundingClientRect().top + window.pageYOffset: the element's
\* distance from the top of the document.
targetPosition(target) == IF target = "#top" THEN 0 ELSE 300

\* ease(t, b, c, d) is a fraction of whole numbers over EaseScale(d).
EaseScale(d) == 2 * d * d

\* A slip in ease: the second branch without its t--.
EaseNoDecrement(t, b, c, d) ==
    IF ~IsNum(t)
    THEN NaN
    ELSE IF 2 * t.n < d
    THEN Num(4 * c * t.n * t.n + EaseScale(d) * b)
    ELSE Num(-c * (2 * t.n * (2 * t.n - 2 * d) - d * d) + EaseScale(d) * b)

\* A slip in ease: the second branch with c / 2 for -c / 2.
EaseWrongSign(t, b, c, d) ==
    IF ~IsNum(t)
    THEN NaN
    ELSE IF 2 * t.n < d
    THEN Num(4 * c * t.n * t.n + EaseScale(d) * b)
    ELSE Num(c * ((2 * t.n - d) * (2 * t.n - 3 * d) - d * d) + EaseScale(d) * b)

\* ease(t, b, c, d), times EaseScale(d): with u = t / (d / 2),
\*   u < 1:   c / 2 * u * u + b
\*   else:    -c / 2 * ((u - 1) * ((u - 1) - 2) - 1) + b
\* and NaN when t is NaN.
Ease(t, b, c, d) ==
    IF ~IsNum(t)
    THEN NaN
    ELSE IF 2 * t.n < d
    THEN Num(4 * c * t.n * t.n + EaseScale(d) * b)
    ELSE Num(-c * ((2 * t.n - d) * (2 * t.n - 3 * d) - d * d) + EaseScale(d) * b)

\* n / scale rounded to the nearest whole number.
Round(n, scale) == (2 * n + scale) \div (2 * scale)

\* window.scrollTo(0, run), for run a fraction over scale: a value that is
\* not finite counts as 0, the position is kept in whole pixels and within
\* the scrollable range.
ScrollTo(run, scale) ==
    IF ~IsNum(run)
    THEN 0
    ELSE LET y == Round(run.n, scale)
         IN  IF y < 0 THEN 0 ELSE IF y > MaxScrollY THEN MaxScrollY ELSE y

Slots == 1..MaxAnimations

\* The closure of one click: start, startPosition and distance; a slot
\* that holds none is not live.
NoAnimation == [live |-> FALSE, start |-> Null, startPosition |-> 0, distance |-> 0]

NewAnimation(href, y) ==
    [live |-> TRUE, start |-> Null, startPosition |-> y,
     distance |-> targetPosition(querySelector(href)) - y]

NoEvent == [href |-> "", defaultPrevented |-> FALSE]

\* if (href === '#')
IsEmptyAnchor(href) == href = "#"

\* A slip: the branch for '#' returns without e.preventDefault().
PreventsDefaultOnTargetOnly(href) == querySelector(href) # NoElement

\* Whether the click handler calls e.preventDefault().
PreventsDefault(href) ==
    IF IsEmptyAnchor(href) THEN TRUE ELSE querySelector(href) # NoElement

\* A slip: the animation is started without the test of target.
StartsAnimationWithoutTarget(href) == ~IsEmptyAnchor(href)

\* Whether the click handler reaches requestAnimFrame(animation).
StartsAnimation(href) ==
    IF IsEmptyAnchor(href) THEN FALSE ELSE querySelector(href) # NoElement

\* A slip: timeElapsed <= duration for timeElapsed < duration.
ContinuesThrough(timeElapsed) == IsNum(timeElapsed) /\ timeElapsed.n <= duration

\* animation's test for asking for another frame.
Continues(timeElapsed) == LessThan(timeElapsed, duration)

\* A slip: animation asks for its next frame twice.
RescheduleTwice(queue, callback, timeElapsed) ==
    IF LessThan(timeElapsed, duration)
    THEN requestAnimFrame(requestAnimFrame(queue, callback), callback)
    ELSE queue

\* What animation hands to requestAnimFrame after its write.
Reschedule(queue, callback, timeElapsed) ==
    IF Continues(timeElapsed) THEN requestAnimFrame(queue, callback) ELSE queue

\* The argument a frame's callbacks are called with: the frame's timestamp,
\* or nothing when the callback is a timer's.
frameArg == IF nativeRAF THEN Num(now) ELSE Undefined

-----------------------------------------------------------------------------
(* A call of ease on its own. *)

\* Durations 1..MaxSmallDuration are tried at every elapsed time, the
\* program's own duration at the times around its ends and its midpoint.
MaxSmallDuration == 4

EaseDurations == (1..MaxSmallDuration) \cup {duration}

EaseTimes(d) ==
    IF d <= MaxSmallDuration
    THEN 0..d
    ELSE {0, 1, d \div 2 - 1, d \div 2, d \div 2 + 1, d - 1, d}

EaseStarts == {0, 7, 300}

EaseDistances == {-300, -1, 0, 1, 300}

NoCall == [called |-> FALSE, d |-> 0, b |-> 0, c |-> 0, t1 |-> 0, t2 |-> 0,
           r1 |-> NaN, r2 |-> NaN]

-----------------------------------------------------------------------------
(* The viewport height of Safari on iOS. *)

\* The wait of both debounced listeners.
wait == 100

\* The events applySafariIOSFixes listens to, each through its own
\* debounce(setViewportHeight, 100).
ViewportEvents == {"resize", "orientationchange"}

\* setViewportHeight: --vh is window.innerHeight * 0.01 px, here in
\* hundredths of a pixel.
setViewportHeight(height) == Num(height)

\* executedFunction of the listener of event, called at time t:
\* clearTimeout(timeout); timeout = setTimeout(later, wait). A timer is
\* the time it is due.
executedFunction(timers, event, t) == [timers EXCEPT ![event] = Num(t + wait)]

\* later has run: the timer of the listener of event is spent.
later(timers, event) == [timers EXCEPT ![event] = Null]

\* No event yet.
NoBurst == [events |-> {}, last |-> 0, recomputed |-> 0]

\* The burst after event arrives at time t: the burst so far when its last
\* event is less than wait ago, a new one otherwise.
Arrives(b, event, t) ==
    IF b.events # {} /\ t - b.last < wait
    THEN [b EXCEPT !.events = @ \cup {event}, !.last = t]
    ELSE [events |-> {event}, last |-> t, recomputed |-> 0]

-----------------------------------------------------------------------------
(* The card buttons. *)

\* The .card-button of the page: none; one in a .card that has a
\* .card-title; one in a .card without .card-title; one outside any .card.
CardButtons == {"none", "titled", "untitled", "orphan"}

\* this.closest('.card') of the button.
closest(button) == IF button = "orphan" THEN NoElement ELSE ".card"

\* card.querySelector('.card-title') of the button's card.
cardTitle(button) == IF button = "titled" THEN ".card-title" ELSE NoElement

\* The click listener of trackCardClicks reads a property of null:
\* this.closest('.card').querySelector('.card-title').textContent.
ThrowsTypeError(button) ==
    closest(button) = NoElement \/ cardTitle(button) = NoElement

\* The keys the keydown listener of a card is tried with.
Keys == {"Enter", " ", "Tab"}

\* The keydown listener of a card calls button.click().
ClicksButton(key) == key = "Enter" \/ key = " "

\* The listeners init() registers.
Registered(header, safari, button) ==
    {"click"}
    \cup (IF header THEN {"scroll"} ELSE {})
    \cup (IF safari THEN ViewportEvents ELSE {})
    \cup (IF button # "none" THEN {"card-button click"} ELSE {})
    \cup (IF closest(button) # NoElement /\ button # "none"
          THEN {"card keydown"} ELSE {})

-----------------------------------------------------------------------------
(* The latest handler call. *)

\* The part of the state a handler reads or writes.
Snapshot ==
    [pageYOffset |-> pageYOffset, classList |-> classList,
     lastScrollTop |-> lastScrollTop, ticking |-> ticking,
     rafQueue |-> rafQueue, animations |-> animations,
     clickOrder |-> clickOrder, overlapped |-> overlapped]

NoSnapshot ==
    [pageYOffset |-> 0, classList |-> {}, lastScrollTop |-> 0, ticking |-> FALSE,
     rafQueue |-> <<>>, animations |-> [i \in Slots |-> NoAnimation],
     clickOrder |-> <<>>, overlapped |-> {}]

\* The latest step was the browser's own.
NotCalled ==
    [fn |-> "none", s |-> 0, href |-> "", id |-> 0, timeElapsed |-> NaN,
     run |-> NaN, before |-> NoSnapshot]

\* The latest step was a call of fn in the present state: s is the scroll
\* offset it read (init, tick, requestTick), href the link clicked (click),
\* id the slot of the animation, timeElapsed and run its locals (animation).
Call(fn) == [NotCalled EXCEPT !.fn = fn, !.before = Snapshot]

-----------------------------------------------------------------------------
(* The state before the script runs. *)

InitPageState(headers, natives) ==
    /\ phase = "loading"
    /\ hasHeader \in headers
    /\ nativeRAF \in natives
    /\ listeners = {}
    /\ pageYOffset = 0
    /\ classList = {}
    /\ lastScrollTop = 0
    /\ ticking = FALSE
    /\ rafQueue = <<>>
    /\ frameCallbacks = <<>>
    /\ now = 0
    /\ animations = [i \in Slots |-> NoAnimation]
    /\ clickEvent = NoEvent
    /\ called = NotCalled
    /\ clickOrder = <<>>
    /\ overlapped = {}
    /\ vh = Null
    /\ timeout = [event \in ViewportEvents |-> Null]
    /\ burst = NoBurst
    /\ error = FALSE

\* A desktop browser, a page without card buttons.
InitPlain ==
    /\ isSafariIOS = FALSE
    /\ innerHeight = 600
    /\ cardButton = "none"

Init ==
    /\ InitPageState(BOOLEAN, BOOLEAN)
    /\ isSafariIOS \in BOOLEAN
    /\ innerHeight \in Heights
    /\ cardButton \in CardButtons
    /\ easeCall = NoCall

\* A page with or without a header and no card buttons, on a desktop browser.
InitHeader ==
    /\ InitPageState(BOOLEAN, BOOLEAN)
    /\ InitPlain
    /\ easeCall = NoCall

\* A page without a header element.
InitSmoothScroll ==
    /\ InitPageState({FALSE}, BOOLEAN)
    /\ InitPlain
    /\ easeCall = NoCall

\* Safari on iOS or another browser, a page without header and card buttons.
InitViewport ==
    /\ InitPageState({FALSE}, {TRUE})
    /\ isSafariIOS \in BOOLEAN
    /\ innerHeight \in Heights
    /\ cardButton = "none"
    /\ easeCall = NoCall

\* Every combination of header and card button.
InitElements ==
    /\ InitPageState(BOOLEAN, {TRUE})
    /\ isSafariIOS = FALSE
    /\ innerHeight = 600
    /\ cardButton \in CardButtons
    /\ easeCall = NoCall

\* ease about to be called with two elapsed times t1 <= t2 of one animation.
InitEase ==
    /\ InitPageState({FALSE}, {TRUE})
    /\ InitPlain
    /\ \E d \in EaseDurations, b \in EaseStarts, c \in EaseDistances :
         \E t1 \in EaseTimes(d), t2 \in EaseTimes(d) :
           /\ t1 <= t2
           /\ easeCall = [NoCall EXCEPT !.d = d, !.b = b, !.c = c,
                                        !.t1 = t1, !.t2 = t2]

-----------------------------------------------------------------------------
(* The actions. *)

\* No task is running and no frame is being run.
Idle == frameCallbacks = <<>> /\ clickEvent = NoEvent

\* init(): initSmoothScroll registers the click listeners;
\* initFixedHeaderEffect, when there is a header, sets lastScrollTop to 0,
\* calls headerScrollHandler once and registers the scroll listener;
\* applySafariIOSFixes, on Safari iOS, calls setViewportHeight and
\* registers the two debounced listeners; trackCardClicks and
\* enhanceAccessibility register the listeners of the card buttons.
InitPage ==
    /\ phase = "loading"
    /\ phase' = "ready"
    /\ IF hasHeader
       THEN LET h == InitialCheck(currentScroll, classList)
            IN  /\ classList' = h.classList
                /\ lastScrollTop' = h.lastScrollTop
                /\ ticking' = FALSE
       ELSE UNCHANGED headerVars
    /\ vh' = IF isSafariIOS THEN setViewportHeight(innerHeight) ELSE vh
    /\ listeners' = Registered(hasHeader, isSafariIOS, cardButton)
    /\ called' = [Call("init") EXCEPT !.s = currentScroll]
    /\ UNCHANGED <<hasHeader, nativeRAF, pageYOffset, rafQueue, frameCallbacks,
                   now, animations, clickEvent, easeCall, orderVars,
                   isSafariIOS, innerHeight, timeout, burst, cardVars>>

\* The user scrolls to one of the offsets (or a scroll event reports the
\* present one); the scroll listener, if registered, is requestTick.
UserScroll(offsets) ==
    /\ Idle
    /\ now + MaxDelta <= MaxTime
    /\ \E s \in offsets \cup {pageYOffset} :
         /\ pageYOffset' = s
         /\ IF "scroll" \in listeners
            THEN /\ requestTick
                 /\ called' = [Call("requestTick") EXCEPT !.s = s]
            ELSE /\ UNCHANGED <<rafQueue, ticking>>
                 /\ called' = NotCalled
    /\ UNCHANGED <<phase, hasHeader, nativeRAF, listeners, classList,
                   lastScrollTop, frameCallbacks, now, animations, clickEvent,
                   easeCall,
                   orderVars, viewportVars, cardVars>>

\* The click listener of the link with this href.
Click(href) ==
    /\ Idle
    /\ "click" \in listeners
    /\ clickEvent' = [href |-> href, defaultPrevented |-> PreventsDefault(href)]
    /\ IF StartsAnimation(href)
       THEN \E i \in Slots :
              /\ ~animations[i].live
              /\ \A j \in Slots : j < i => animations[j].live
              /\ now + duration + 2 * MaxDelta <= MaxTime
              /\ animations' = [animations EXCEPT ![i] = NewAnimation(href, pageYOffset)]
              /\ rafQueue' = requestAnimFrame(rafQueue, AnimationCallback(i))
              /\ clickOrder' = Append(clickOrder, i)
              /\ overlapped' =
                   IF clickOrder = <<>> THEN overlapped
                   ELSE overlapped \cup {i}
                          \cup {clickOrder[k] : k \in 1..Len(clickOrder)}
       ELSE UNCHANGED <<animations, rafQueue, orderVars>>
    /\ called' = [Call("click") EXCEPT !.href = href]
    /\ UNCHANGED <<phase, hasHeader, nativeRAF, listeners, pageYOffset, classList,
                   lastScrollTop, ticking, frameCallbacks, now, easeCall,
                   viewportVars, cardVars>>

\* The browser's default action of the click, unless prevented: navigation
\* to the fragment, which scrolls to the element it names ('#' is the top).
DefaultAction ==
    /\ clickEvent # NoEvent
    /\ clickEvent' = NoEvent
    /\ pageYOffset' =
         IF clickEvent.defaultPrevented THEN pageYOffset
         ELSE IF clickEvent.href = "#" THEN 0
         ELSE IF querySelector(clickEvent.href) # NoElement
         THEN targetPosition(querySelector(clickEvent.href))
         ELSE pageYOffset
    /\ called' = NotCalled
    /\ UNCHANGED <<phase, hasHeader, nativeRAF, listeners, classList,
                   lastScrollTop, ticking, rafQueue, frameCallbacks, now,
                   animations, easeCall,
                   orderVars, viewportVars, cardVars>>

\* The timer of the listener of event is due at time t; due before time t.
TimerDue(event, t) == IsNum(timeout[event]) /\ timeout[event].n <= t

DueBefore(event, t) == IsNum(timeout[event]) /\ timeout[event].n < t

\* A frame: natively every callback handed over so far is called with the
\* frame's timestamp; with the fallback the oldest timer fires.
DeliverFrame ==
    /\ Idle
    /\ rafQueue # <<>>
    /\ \E delta \in FrameDeltas :
         /\ now + delta <= MaxTime
         /\ \A event \in ViewportEvents : ~DueBefore(event, now + delta)
         /\ now' = now + delta
    /\ IF nativeRAF
       THEN /\ frameCallbacks' = rafQueue
            /\ rafQueue' = <<>>
       ELSE /\ frameCallbacks' = <<Head(rafQueue)>>
            /\ rafQueue' = Tail(rafQueue)
    /\ called' = NotCalled
    /\ UNCHANGED <<phase, hasHeader, nativeRAF, listeners, pageYOffset, classList,
                   lastScrollTop, ticking, animations, clickEvent, easeCall,
                   orderVars, viewportVars, cardVars>>

\* The callback of requestTick: headerScrollHandler(); ticking = false.
RunTick ==
    /\ frameCallbacks # <<>>
    /\ Head(frameCallbacks).kind = "tick"
    /\ LET h == headerScrollHandler(currentScroll, classList, lastScrollTop)
       IN  /\ classList' = h.classList
           /\ lastScrollTop' = h.lastScrollTop
    /\ ticking' = FALSE
    /\ frameCallbacks' = Tail(frameCallbacks)
    /\ called' = [Call("tick") EXCEPT !.s = currentScroll]
    /\ UNCHANGED <<phase, hasHeader, nativeRAF, listeners, pageYOffset, rafQueue,
                   now, animations, clickEvent, easeCall,
                   orderVars, viewportVars, cardVars>>

Queued(queue, callback) == \E k \in 1..Len(queue) : queue[k] = callback

\* order without the animation of slot i.
Without(order, i) ==
    LET Other(j) == j # i
    IN  SelectSeq(order, Other)

\* animation(currentTime), of the click in the slot of the callback; the
\* closure is gone once no callback of it is left.
RunAnimation ==
    /\ frameCallbacks # <<>>
    /\ Head(frameCallbacks).kind = "animation"
    /\ LET callback == Head(frameCallbacks)
           a == animations[callback.id]
           start == IF a.start = Null THEN frameArg ELSE a.start
           timeElapsed == Minus(frameArg, start)
           run == Ease(timeElapsed, a.startPosition, a.distance, duration)
       IN  /\ pageYOffset' = ScrollTo(run, EaseScale(duration))
           /\ rafQueue' = Reschedule(rafQueue, callback, timeElapsed)
           /\ frameCallbacks' = Tail(frameCallbacks)
           /\ animations' =
                [animations EXCEPT ![callback.id] =
                   IF Queued(rafQueue', callback) \/ Queued(frameCallbacks', callback)
                   THEN [a EXCEPT !.start = start]
                   ELSE NoAnimation]
           /\ IF animations'[callback.id].live
              THEN UNCHANGED orderVars
              ELSE /\ clickOrder' = Without(clickOrder, callback.id)
                   /\ overlapped' = overlapped \ {callback.id}
           /\ called' = [Call("animation") EXCEPT !.id = callback.id,
                           !.timeElapsed = timeElapsed, !.run = run]
    /\ UNCHANGED <<phase, hasHeader, nativeRAF, listeners, classList,
                   lastScrollTop, ticking, now, clickEvent, easeCall,
                   viewportVars, cardVars>>

\* Time passes without a frame; no timer is passed over.
AdvanceClock ==
    /\ Idle
    /\ \E step \in ClockSteps :
         /\ now + step <= MaxResizeTime
         /\ \A event \in ViewportEvents : ~DueBefore(event, now + step)
         /\ now' = now + step
    /\ called' = NotCalled
    /\ UNCHANGED <<phase, hasHeader, nativeRAF, listeners, pageYOffset, classList,
                   lastScrollTop, ticking, rafQueue, frameCallbacks, animations,
                   clickEvent, easeCall, orderVars, viewportVars, cardVars>>

\* The window is resized or rotated: a resize or orientationchange event,
\* after the timers that were due before it.
ViewportEvent(event) ==
    /\ Idle
    /\ phase = "ready"
    /\ now + wait <= MaxResizeTime
    /\ \A e \in ViewportEvents : ~TimerDue(e, now)
    /\ \E height \in Heights : innerHeight' = height
    /\ timeout' = IF event \in listeners
                  THEN executedFunction(timeout, event, now)
                  ELSE timeout
    /\ burst' = Arrives(burst, event, now)
    /\ called' = Call(event)
    /\ UNCHANGED <<phase, hasHeader, nativeRAF, listeners, pageYOffset, classList,
                   lastScrollTop, ticking, rafQueue, frameCallbacks, now,
                   animations, clickEvent, easeCall, orderVars, isSafariIOS, vh,
                   cardVars>>

\* The timer of a debounced listener fires: later calls setViewportHeight.
RunTimer(event) ==
    /\ Idle
    /\ TimerDue(event, now)
    /\ vh' = setViewportHeight(innerHeight)
    /\ timeout' = later(timeout, event)
    /\ burst' = [burst EXCEPT !.recomputed = @ + 1]
    /\ called' = Call("later")
    /\ UNCHANGED <<phase, hasHeader, nativeRAF, listeners, pageYOffset, classList,
                   lastScrollTop, ticking, rafQueue, frameCallbacks, now,
                   animations, clickEvent, easeCall, orderVars, isSafariIOS,
                   innerHeight, cardVars>>

\* The click listener of a card button.
CardButtonClick ==
    /\ Idle
    /\ "card-button click" \in listeners
    /\ error' = (error \/ ThrowsTypeError(cardButton))
    /\ called' = Call("card-button click")
    /\ UNCHANGED <<phase, hasHeader, nativeRAF, listeners, pageYOffset, classList,
                   lastScrollTop, ticking, rafQueue, frameCallbacks, now,
                   animations, clickEvent, easeCall, orderVars, viewportVars,
                   cardButton>>

\* The keydown listener of a card that has a button: Enter and the space
\* bar click the button.
CardKeydown(key) ==
    /\ Idle
    /\ "card keydown" \in listeners
    /\ error' = (error \/ (ClicksButton(key) /\ ThrowsTypeError(cardButton)))
    /\ called' = [Call("card keydown") EXCEPT !.href = key]
    /\ UNCHANGED <<phase, hasHeader, nativeRAF, listeners, pageYOffset, classList,
                   lastScrollTop, ticking, rafQueue, frameCallbacks, now,
                   animations, clickEvent, easeCall, orderVars, viewportVars,
                   cardButton>>

\* ease is called at both elapsed times.
CallEase ==
    /\ ~easeCall.called
    /\ easeCall' = [easeCall EXCEPT
                      !.called = TRUE,
                      !.r1 = Ease(Num(easeCall.t1), easeCall.b, easeCall.c, easeCall.d),
                      !.r2 = Ease(Num(easeCall.t2), easeCall.b, easeCall.c, easeCall.d)]
    /\ UNCHANGED <<phase, hasHeader, nativeRAF, listeners, pageYOffset, classList,
                   lastScrollTop, ticking, rafQueue, frameCallbacks, now,
                   animations, clickEvent, called,
                   orderVars, viewportVars, cardVars>>

-----------------------------------------------------------------------------
(* The specifications. *)

\* Offsets the user scrolls to on a page with a header: the scenarios of
\* the header rule, both thresholds and offsets less than 5 apart.
HeaderOffsets == {-10, -3, 0, 50, 98, 100, 101, 120, 123, 125, 150, 200, 300}

\* Offsets the user scrolls to while animations run.
CoarseOffsets == {0, 150}

Next ==
    \/ InitPage
    \/ UserScroll(CoarseOffsets)
    \/ \E href \in Links : Click(href)
    \/ DefaultAction
    \/ DeliverFrame
    \/ RunTick
    \/ RunAnimation
    \/ AdvanceClock
    \/ \E event \in ViewportEvents : ViewportEvent(event)
    \/ \E event \in ViewportEvents : RunTimer(event)
    \/ CardButtonClick
    \/ \E key \in Keys : CardKeydown(key)

Spec == Init /\ [][Next]_vars

NextHeader ==
    \/ InitPage
    \/ UserScroll(HeaderOffsets)
    \/ DeliverFrame
    \/ RunTick

SpecHeader == InitHeader /\ [][NextHeader]_vars

NextSmoothScroll ==
    \/ InitPage
    \/ UserScroll(CoarseOffsets)
    \/ \E href \in Links : Click(href)
    \/ DefaultAction
    \/ DeliverFrame
    \/ RunAnimation

SpecSmoothScroll == InitSmoothScroll /\ [][NextSmoothScroll]_vars

NextViewport ==
    \/ InitPage
    \/ AdvanceClock
    \/ \E event \in ViewportEvents : ViewportEvent(event)
    \/ \E event \in ViewportEvents : RunTimer(event)

SpecViewport == InitViewport /\ [][NextViewport]_vars

NextElements ==
    \/ InitPage
    \/ UserScroll(CoarseOffsets)
    \/ \E href \in Links : Click(href)
    \/ DefaultAction
    \/ DeliverFrame
    \/ RunTick
    \/ RunAnimation
    \/ CardButtonClick
    \/ \E key \in Keys : CardKeydown(key)

SpecElements == InitElements /\ [][NextElements]_vars

NextEase == CallEase

SpecEase == InitEase /\ [][NextEase]_vars

\* The browser keeps delivering frames between the tasks of the event loop,
\* however many events arrive, and finishes the default action of a click;
\* a callback of a frame that has begun is called.
FairSmoothScroll ==
    /\ SpecSmoothScroll
    /\ SF_vars(DeliverFrame)
    /\ WF_vars(RunAnimation)
    /\ WF_vars(DefaultAction)

\* The browser keeps delivering frames between the tasks of the event loop
\* and calls the callbacks of a frame that has begun.
FairHeader ==
    /\ SpecHeader
    /\ SF_vars(DeliverFrame)
    /\ WF_vars(RunTick)

-----------------------------------------------------------------------------
(* The header rule. *)

Hidden == {"header-hidden", "header-scrolled"}

Scrolled == {"header-scrolled"}

\* The latest step was an evaluation of headerScrollHandler: the initial
\* check of init, or the callback of requestTick.
HeaderCall == called.fn = "tick" \/ (called.fn = "init" /\ hasHeader)

\* The header's classes after the offsets of evals are evaluated in turn,
\* starting with the given classes and lastScrollTop.
RECURSIVE Evaluate(_, _, _)
Evaluate(evals, classes, last) ==
    IF evals = <<>>
    THEN <<>>
    ELSE LET h == headerScrollHandler(Head(evals), classes, last)
         IN  <<h.classList>> \o Evaluate(Tail(evals), h.classList, h.lastScrollTop)

\* C1: an evaluation at an offset s > 100 that is at least 5 away from
\* lastScrollTop leaves the header hidden+scrolled when s is above
\* lastScrollTop and scrolled otherwise, and lastScrollTop = s; from the
\* initial state the offsets 0, 50, 120, 200 give none, none, hidden+scrolled,
\* hidden+scrolled, and from hidden+scrolled at 300 the offset 150 gives
\* scrolled.
C1_DirectionRule ==
    /\ HeaderCall =>
         LET s == called.s
             last == called.before.lastScrollTop
         IN  (s > 100 /\ Abs(s - last) >= 5) =>
               /\ lastScrollTop = s
               /\ classList = IF s - last > 0 THEN Hidden ELSE Scrolled
    /\ Evaluate(<<0, 50, 120, 200>>, {}, 0) = <<{}, {}, Hidden, Hidden>>
    /\ Evaluate(<<150>>, Hidden, 300) = <<Scrolled>>

\* The last evaluation of the scenario 0, 50, 120, 200 has happened.
C1_Witness ==
    /\ HeaderCall
    /\ called.s = 200
    /\ called.before.lastScrollTop = 120
    /\ called.before.classList = Hidden
    /\ classList = Hidden
    /\ lastScrollTop = 200

\* C2 as stated: after an evaluation at any offset s <= 100 the header has
\* neither class.
C2_AnyOffsetUpToThreshold == (HeaderCall /\ called.s <= 100) => classList = {}

\* C2, amended: after an evaluation at an offset 0 <= s <= 100 the header
\* has neither class, whatever its classes and lastScrollTop were.
C2_TopOfPage ==
    (HeaderCall /\ called.s >= 0 /\ called.s <= 100) => classList = {}

\* A hidden header was evaluated at the top of the page.
C2_Witness ==
    /\ HeaderCall
    /\ called.s >= 0
    /\ called.s <= 100
    /\ called.before.classList = Hidden
    /\ classList = {}

\* C3 as stated: an evaluation whose offset is less than 5 away from
\* lastScrollTop changes neither lastScrollTop nor the header's classes.
C3_AnySmallDelta ==
    (HeaderCall /\ Abs(called.s - called.before.lastScrollTop) < 5) =>
        /\ lastScrollTop = called.before.lastScrollTop
        /\ classList = called.before.classList

\* C3, amended: an evaluation whose offset is above 100 or negative, and
\* less than 5 away from lastScrollTop, changes neither lastScrollTop nor
\* the header's classes.
C3_SmallDeltaAboveThreshold ==
    (/\ HeaderCall
     /\ Abs(called.s - called.before.lastScrollTop) < 5
     /\ (called.s > 100 \/ called.s < 0)) =>
        /\ lastScrollTop = called.before.lastScrollTop
        /\ classList = called.before.classList

\* A hidden header was evaluated 3 pixels below its lastScrollTop.
C3_Witness ==
    /\ HeaderCall
    /\ called.s = 123
    /\ called.before.lastScrollTop = 120
    /\ called.before.classList = Hidden
    /\ classList = Hidden
    /\ lastScrollTop = 120

Count(queue, callback) == Cardinality({k \in 1..Len(queue) : queue[k] = callback})

\* The callbacks of callback that are still to be called.
Pending(callback) == Count(rafQueue, callback) + Count(frameCallbacks, callback)

\* C4: at most one callback of requestTick is pending, however many scroll
\* events arrive; a scroll event that finds one pending schedules nothing;
\* and the evaluation of the callback is the header rule at the offset
\* current when the callback runs.
C4_FrameThrottle ==
    /\ Pending(TickCallback) <= 1
    /\ (called.fn = "requestTick" /\ called.before.ticking) =>
          rafQueue = called.before.rafQueue
    /\ called.fn = "tick" =>
          /\ called.s = (IF pageYOffset # 0 THEN pageYOffset ELSE 0)
          /\ LET h == headerScrollHandler(called.s, called.before.classList,
                                          called.before.lastScrollTop)
             IN  classList = h.classList /\ lastScrollTop = h.lastScrollTop

\* A scroll event moved the page while a callback of requestTick was
\* already pending.
C4_Witness ==
    /\ called.fn = "requestTick"
    /\ called.before.ticking
    /\ called.s # called.before.pageYOffset
    /\ Pending(TickCallback) = 1

\* C12: with a header, init evaluates the header rule once, at the offset
\* current at that moment and with lastScrollTop = 0; no evaluation and no
\* scroll listener come before it, and it leaves the scroll listener
\* registered with no callback of requestTick scheduled.
C12_InitialEvaluation ==
    /\ phase = "loading" =>
         /\ "scroll" \notin listeners
         /\ Pending(TickCallback) = 0
         /\ called.fn = "none"
         /\ classList = {} /\ lastScrollTop = 0
    /\ called.fn = "tick" => phase = "ready" /\ "scroll" \in listeners
    /\ (called.fn = "init" /\ hasHeader) =>
         /\ called.s = pageYOffset
         /\ called.before.lastScrollTop = 0
         /\ classList = (IF called.s > 100 THEN Hidden ELSE {})
         /\ lastScrollTop = (IF called.s < 0 THEN 0 ELSE called.s)
         /\ "scroll" \in listeners
         /\ rafQueue = <<>> /\ ~ticking
         /\ now = 0

\* init ran on a page that was loaded scrolled to 300: the initial check
\* hid the header.
C12_Witness ==
    /\ called.fn = "init"
    /\ hasHeader
    /\ called.s = 300
    /\ classList = Hidden
    /\ lastScrollTop = 300

\* C14: an evaluation at an offset s < 0, or at an offset s > 100 less than
\* 5 away from lastScrollTop, leaves the header's classes and lastScrollTop
\* as they were.
C14_IgnoredEvaluation ==
    (/\ HeaderCall
     /\ \/ called.s < 0
        \/ called.s > 100 /\ Abs(called.s - called.before.lastScrollTop) < 5) =>
        /\ classList = called.before.classList
        /\ lastScrollTop = called.before.lastScrollTop

\* A hidden header was evaluated at a negative offset.
C14_Witness ==
    /\ HeaderCall
    /\ called.s = -10
    /\ called.before.classList = Hidden
    /\ called.before.lastScrollTop = 200
    /\ classList = Hidden
    /\ lastScrollTop = 200

\* C16: the header's classes are none, header-scrolled, or header-hidden
\* with header-scrolled.
C16_ThreeStates == classList \in {{}, Scrolled, Hidden}

\* A hidden header was shown again by scrolling up.
C16_Witness ==
    /\ HeaderCall
    /\ called.before.classList = Hidden
    /\ classList = Scrolled

\* C17: the header has no class exactly when lastScrollTop <= 100,
\* lastScrollTop is never negative, and after an evaluation at an offset
\* s >= 0 lastScrollTop is less than 5 away from s.
C17_StateAndLastScrollTop ==
    /\ classList = {} <=> lastScrollTop <= 100
    /\ lastScrollTop >= 0
    /\ (HeaderCall /\ called.s >= 0) => Abs(lastScrollTop - called.s) < 5

\* A hidden header came back to the top of the page, from 101 to 98.
C17_Witness ==
    /\ HeaderCall
    /\ called.s = 98
    /\ called.before.lastScrollTop = 101
    /\ called.before.classList = Hidden
    /\ classList = {}
    /\ lastScrollTop = 98

\* C20: the ticking flag is set exactly while a callback of requestTick is
\* pending, a scroll event leaves one pending, every scroll event is
\* followed by an evaluation, and an evaluation reads the offset current
\* when it runs.
C20_NoScrollEventLost ==
    /\ [](ticking <=> Pending(TickCallback) = 1)
    /\ [](called.fn = "requestTick" => Pending(TickCallback) = 1)
    /\ [](called.fn = "tick" => called.s = called.before.pageYOffset)
    /\ (called.fn = "requestTick") ~> (called.fn = "tick")

\* The callback of requestTick ran after two scroll events and read the
\* offset of the second.
C20_Witness ==
    /\ called.fn = "tick"
    /\ ~ticking
    /\ called.before.ticking
    /\ called.s = 200
    /\ called.before.lastScrollTop = 120

-----------------------------------------------------------------------------
(* The click handler. *)

\* The latest step was the click listener and it scheduled nothing, started
\* no animation and wrote no scroll position.
ClickDidNothing ==
    /\ rafQueue = called.before.rafQueue
    /\ animations = called.before.animations
    /\ pageYOffset = called.before.pageYOffset

\* The latest step was the click listener and it started one animation.
ClickStartedAnimation ==
    /\ Len(rafQueue) = Len(called.before.rafQueue) + 1
    /\ rafQueue[Len(rafQueue)].kind = "animation"
    /\ animations[rafQueue[Len(rafQueue)].id].live
    /\ ~called.before.animations[rafQueue[Len(rafQueue)].id].live

\* C5 as stated: a click on a link whose href is '#' does not suppress the
\* default navigation, starts no animation and writes no scroll position.
C5_EmptyAnchorNoAction ==
    (called.fn = "click" /\ called.href = "#") =>
        ~clickEvent.defaultPrevented /\ ClickDidNothing

\* C5, amended: a click on a link whose href is '#' suppresses the default
\* navigation, and starts no animation and writes no scroll position.
C5_EmptyAnchorPrevented ==
    (called.fn = "click" /\ called.href = "#") =>
        clickEvent.defaultPrevented /\ ClickDidNothing

\* The link '#' was clicked while an animation was in flight.
C5_Witness ==
    /\ called.fn = "click"
    /\ called.href = "#"
    /\ clickEvent.href = "#"
    /\ \E i \in Slots : animations[i].live

\* C6: a click on a link '#x' that names no element leaves the scroll
\* position, the scheduled callbacks and the animations as they were and
\* does not suppress the default navigation; a click on a link '#x' that
\* names an element suppresses it and starts an animation.
C6_MissingTarget ==
    (called.fn = "click" /\ called.href # "#") =>
        IF called.href \in Anchors
        THEN clickEvent.defaultPrevented /\ ClickStartedAnimation
        ELSE ~clickEvent.defaultPrevented /\ ClickDidNothing

\* The link '#missing' was clicked away from the top of the page.
C6_Witness ==
    /\ called.fn = "click"
    /\ called.href = "#missing"
    /\ called.href \notin Anchors
    /\ pageYOffset > 0

\* C9: the animation of a click has at most one callback pending, exactly
\* one while it is in flight, and after its call in a frame none in that
\* frame.
C9_OneAnimationPerClick ==
    /\ \A i \in Slots :
         /\ Pending(AnimationCallback(i)) <= 1
         /\ animations[i].live <=> Pending(AnimationCallback(i)) = 1
    /\ called.fn = "animation" =>
         Count(frameCallbacks, AnimationCallback(called.id)) = 0

\* Two animations are in flight and one of them has just asked for its
\* next frame.
C9_Witness ==
    /\ called.fn = "animation"
    /\ \A i \in {1, 2} : animations[i].live /\ Pending(AnimationCallback(i)) = 1
    /\ Queued(rafQueue, AnimationCallback(called.id))

\* The elapsed time of the latest call of animation: the frame's timestamp
\* minus the timestamp of the animation's first frame.
Elapsed ==
    LET a == called.before.animations[called.id]
    IN  Minus(frameArg, IF a.start = Null THEN frameArg ELSE a.start)

\* C10: animation asks for another frame exactly when its elapsed time is
\* < 1000; an animation that has stopped has no callback left; and every
\* animation in flight stops.
C10_AnimationLifetime ==
    /\ [](called.fn = "animation" =>
            /\ LessThan(Elapsed, 1000) =>
                 rafQueue = Append(called.before.rafQueue, AnimationCallback(called.id))
            /\ ~LessThan(Elapsed, 1000) =>
                 /\ rafQueue = called.before.rafQueue
                 /\ ~animations[called.id].live)
    /\ [](\A i \in Slots :
            ~animations[i].live => Pending(AnimationCallback(i)) = 0)
    /\ \A i \in Slots : animations[i].live ~> ~animations[i].live

\* An animation ran its frame at an elapsed time of 1000 or more and stopped.
C10_Witness ==
    /\ called.fn = "animation"
    /\ IsNum(Elapsed)
    /\ Elapsed.n >= 1000
    /\ called.before.animations[called.id].live
    /\ ~animations[called.id].live

\* C15: a click cancels nothing: the animations in flight and the callbacks
\* waiting are as they were; an animation stops only in a call of its own
\* whose elapsed time is not < 1000; every animation in flight is called in
\* every frame; and every call writes the scroll position, so after the
\* last call of a frame the position is the one that call wrote.
C15_NeverCancelled ==
    /\ called.fn = "click" =>
         /\ \A i \in Slots :
              called.before.animations[i].live =>
                  animations[i] = called.before.animations[i]
         /\ Len(rafQueue) >= Len(called.before.rafQueue)
         /\ SubSeq(rafQueue, 1, Len(called.before.rafQueue)) = called.before.rafQueue
    /\ \A i \in Slots :
         (called.before.animations[i].live /\ ~animations[i].live) =>
             /\ called.fn = "animation"
             /\ called.id = i
             /\ ~LessThan(Elapsed, 1000)
    /\ (nativeRAF /\ frameCallbacks # <<>> /\ called.fn = "none") =>
         \A i \in Slots :
             animations[i].live => Count(frameCallbacks, AnimationCallback(i)) = 1
    /\ called.fn = "animation" => pageYOffset = ScrollTo(called.run, EaseScale(duration))

\* Two animations to different targets are in flight, both have run in
\* earlier frames, and the later one has just made the last call of a frame.
C15_Witness ==
    /\ called.fn = "animation"
    /\ nativeRAF
    /\ frameCallbacks = <<>>
    /\ Len(clickOrder) = 2
    /\ called.id = clickOrder[2]
    /\ \A i \in Slots : animations[i].live /\ called.before.animations[i].start # Null
    /\ called.before.animations[clickOrder[1]].distance # called.before.animations[clickOrder[2]].distance
    /\ IsNum(called.run)
    /\ pageYOffset = ScrollTo(called.run, EaseScale(duration))

\* C18: the final call of an animation that never shared a time with
\* another, with frames that carry timestamps, leaves the scroll position
\* at startPosition + distance.
C18_LandsOnTarget ==
    (/\ called.fn = "animation"
     /\ nativeRAF
     /\ ~animations[called.id].live
     /\ called.id \notin called.before.overlapped) =>
        LET a == called.before.animations[called.id]
        IN  /\ called.run = Num((a.startPosition + a.distance) * EaseScale(duration))
            /\ pageYOffset = a.startPosition + a.distance

\* C19: animations stop in the order of their clicks, and the call in which
\* one stops writes the scroll position; so of two that overlap the later
\* click's animation writes last.
C19_LastClickWins ==
    /\ {clickOrder[k] : k \in 1..Len(clickOrder)} = {i \in Slots : animations[i].live}
    /\ Len(clickOrder) = Cardinality({i \in Slots : animations[i].live})
    /\ (called.fn = "animation" /\ ~animations[called.id].live) =>
         /\ called.id = Head(called.before.clickOrder)
         /\ pageYOffset = ScrollTo(called.run, EaseScale(duration))

\* The later of two animations that overlapped has stopped after the
\* earlier, in a frame with a timestamp, and none is in flight.
C19_Witness ==
    /\ called.fn = "animation"
    /\ nativeRAF
    /\ called.id \in called.before.overlapped
    /\ called.before.clickOrder = <<called.id>>
    /\ clickOrder = <<>>
    /\ IsNum(called.run)
    /\ pageYOffset = ScrollTo(called.run, EaseScale(duration))

-----------------------------------------------------------------------------
(* ease. *)

\* C7: ease(0, b, c, d) = b and ease(d, b, c, d) = b + c.
C7_EaseEndpoints ==
    easeCall.called =>
        /\ easeCall.t1 = 0 => easeCall.r1 = Num(easeCall.b * EaseScale(easeCall.d))
        /\ easeCall.t2 = easeCall.d =>
             easeCall.r2 = Num((easeCall.b + easeCall.c) * EaseScale(easeCall.d))

\* ease was called at 0 and at the program's duration.
C7_Witness ==
    /\ easeCall.called
    /\ easeCall.d = 1000
    /\ easeCall.t1 = 0
    /\ easeCall.t2 = 1000
    /\ easeCall.b = 7
    /\ easeCall.c = -300

\* C8: for elapsed times t1 <= t2 in 0..d, ease(t2) - ease(t1) is zero or
\* has the sign of the distance c.
C8_EaseMonotonic ==
    easeCall.called =>
        /\ easeCall.c > 0 => easeCall.r2.n >= easeCall.r1.n
        /\ easeCall.c < 0 => easeCall.r2.n <= easeCall.r1.n
        /\ easeCall.c = 0 => easeCall.r2.n = easeCall.r1.n

\* ease was called just before and just after the midpoint of the
\* program's duration.
C8_Witness ==
    /\ easeCall.called
    /\ easeCall.d = 1000
    /\ easeCall.t1 = 499
    /\ easeCall.t2 = 501
    /\ easeCall.c = 300
    /\ easeCall.r2.n > easeCall.r1.n

-----------------------------------------------------------------------------
(* The viewport height. *)

\* C11: on Safari iOS a burst of resize and orientationchange events, each
\* less than 100 after the one before, is recomputed once, 100 after its
\* last event and not before.
C11_DebouncedBurst ==
    (isSafariIOS /\ burst.events # {}) =>
        /\ burst.recomputed <= 1
        /\ burst.recomputed = 1 => now >= burst.last + wait
        /\ called.fn = "later" => now = burst.last + wait
        /\ now > burst.last + wait => burst.recomputed = 1

-----------------------------------------------------------------------------
(* Missing elements. *)

\* C13: whatever elements the page has, no handler ends in an uncaught
\* exception; init registers the click listeners and those of the card
\* buttons there are; and without a header there is no scroll listener and
\* no header evaluation.
C13_NoHardFailure ==
    /\ ~error
    /\ phase = "ready" =>
         /\ "click" \in listeners
         /\ "scroll" \in listeners <=> hasHeader
         /\ "card-button click" \in listeners <=> cardButton # "none"
    /\ ~hasHeader =>
         /\ called.fn \notin {"tick", "requestTick"}
         /\ classList = {} /\ lastScrollTop = 0 /\ ~ticking
         /\ Pending(TickCallback) = 0

====
